---- MODULE Spec2Model ----
(***************************************************************************)
(* The useDataFetcher hook: the HTTP request controller (debounce timer,   *)
(* abort of the superseded call, retry with backoff, publication guarded   *)
(* by the request identifier) and the WebSocket controller (connect,       *)
(* reconnect with backoff, outbound queue flushed by an effect).           *)
(*                                                                         *)
(* One action is one task of the JavaScript event loop: a call of a        *)
(* function the hook exposes, a timer callback, the continuation of the    *)
(* awaited transport call, a socket event, or a React commit.              *)
(***************************************************************************)
EXTENDS Integers, Sequences, FiniteSets, TLC

\* ---------------------------------------------------------------- bounds
MaxRetry == 2        \* SpecHttp: the retry option is drawn from 0..MaxRetry
MaxWsRetry == 1      \* SpecWs and Spec: the retry option is drawn from 0..MaxWsRetry
MaxFetches == 1      \* fetch invocations by the owner: refetch(), auto-refresh ticks
MaxCancels == 1      \* cancel() calls
MaxMsgs == 2         \* sendMessage() calls
MaxCloses == 1       \* closeWebSocket() calls by the owner
MaxPropChanges == 1  \* re-renders with a changed url, retry or wsUrl
MaxOps == 1          \* Spec, where both controllers run: calls by the owner, of any kind
MaxOpens == 1        \* handshakes the server lets succeed
MaxInbound == 1      \* inbound socket messages

\* ------------------------------------------------------- program constants
Debounce == 300
BackoffBase == 100
BackoffCap == 5000
ReconnectStep == 1000
ReconnectCap == 30

Null == "null"       \* the null of error
NoUrl == 0           \* wsUrl undefined
None == 0            \* a ref holding null, a data or wsData of null

VARIABLES
  \* props
  url, retry, autoFetch, autoRefresh, wsUrl,
  \* useState
  data, loading, error, wsData, wsState, wsMessagesQueue, isFirst,
  \* useRef
  wsRef, abortControllerRef, timeoutRef, isMounted, latestRequestIdRef, fetchDataRef,
  \* the environment: clock, pending timers, transport calls in flight, sockets
  now, timers, calls, sockets,
  \* the closures of the runs of the WebSocket effect (reconnectAttempts, MAX_RECONNECT_ATTEMPTS)
  effects,
  \* React: lifecycle phase, the dependencies the flush effect last ran with
  phase, lastRender, queueDirty,
  \* identifiers of timers and calls, and of sockets
  nextId, nextSock,
  \* how many calls of each kind the owner makes at most, and the server lets succeed
  limit,
  \* history: counters, transport calls started, messages handed to sockets, last publication
  hist, netCalls, sent, lastPub

props == <<url, retry, autoFetch, autoRefresh, wsUrl, limit>>
httpState == <<data, loading, error, isFirst>>
httpRefs == <<abortControllerRef, timeoutRef, latestRequestIdRef, fetchDataRef>>
wsVars == <<wsData, wsState, wsMessagesQueue, wsRef, sockets, effects, sent, nextSock>>
vars == <<url, retry, autoFetch, autoRefresh, wsUrl,
          data, loading, error, wsData, wsState, wsMessagesQueue, isFirst,
          wsRef, abortControllerRef, timeoutRef, isMounted, latestRequestIdRef, fetchDataRef,
          now, timers, calls, sockets, effects, phase, lastRender, queueDirty,
          nextId, nextSock, limit, hist, netCalls, sent, lastPub>>

Min(a, b) == IF a < b THEN a ELSE b

RECURSIVE Pow2(_)
Pow2(n) == IF n = 0 THEN 1 ELSE 2 * Pow2(n - 1)

\* ------------------------------------------------------------ pure helpers
\* const retryDelay = Math.min(100 * 2 ** attempts, 5000)
retryDelay(attempts) == Min(BackoffBase * Pow2(attempts), BackoffCap)

\* 1000 * Math.min(reconnectAttempts, 30)
reconnectDelay(reconnectAttempts) == ReconnectStep * Min(reconnectAttempts, ReconnectCap)

\* the reconnect budget of the earlier variant: reconnectAttempts < retry
retryAsReconnectBudget(r) == r

\* const MAX_RECONNECT_ATTEMPTS = retry * 2
MAX_RECONNECT_ATTEMPTS(r) == r * 2

\* !isFirst ? debounce : 0, with the isFirst the fetchData closure captured
debounceDelay(fn) == IF ~fn.isFirst THEN Debounce ELSE 0

\* err.response?.data?.message || err.message || "Something went wrong"
errorMessage(err) ==
  IF err.serverMessage # "" THEN err.serverMessage
  ELSE IF err.message # "" THEN err.message
  ELSE "Something went wrong"

\* the failures the transport can raise (not cancellations)
Failures == { [serverMessage |-> "server says no", message |-> "Request failed"],
              [serverMessage |-> "", message |-> "Network Error"],
              [serverMessage |-> "", message |-> ""] }

\* JSON.stringify of an outbound message (messages are numbered 1, 2, ...)
JSONstringify(message) == ToString(message)

\* the inbound frames the server may send: two JSON texts and one that is no JSON
InboundFrames == {"1", "2", "{bad"}
IsJSON(text) == text \in {"1", "2"}

\* JSON.parse(event.data): the value of a JSON text; it throws on any other text
JSONparse(text) == CASE text = "1" -> 1 [] text = "2" -> 2
ParseThrows(text) == ~IsJSON(text)

\* the fetchData closure useCallback built in a render: the props and the isFirst it captured
Closure(u, r, first) == [url |-> u, retry |-> r, isFirst |-> first]

\* currentRequestId === latestRequestIdRef.current, with isMounted.current
IsLatest(requestId) == requestId = latestRequestIdRef
ShouldPublish(requestId) == isMounted /\ IsLatest(requestId)

\* ------------------------------------------------------------ timers
NoClosure == Closure(0, 0, FALSE)

\* A timer fires no earlier than its delay after it was set, and after every timer
\* set before it with a delay that is not longer.
TimerReady(t) ==
  /\ t \in timers
  /\ t.delay > 0 => now > t.setAt
  /\ \A u \in timers : ~(u.id < t.id /\ u.delay <= t.delay)

\* clearTimeout(timeoutRef.current)
clearTimeout(T) == { t \in T : t.id # timeoutRef }

\* an abort() that reaches no call
abortNone(C, by) == C

\* abortControllerRef.current?.abort()
abort(C, by) ==
  { IF c.id = abortControllerRef /\ ~c.aborted
      THEN [c EXCEPT !.aborted = TRUE, !.abortedBy = by] ELSE c : c \in C }

Bump(field) == [hist EXCEPT ![field] = @ + 1]

\* the bound lets the owner make one more call of this kind after the history h
Ops(h) == h.fetches + h.cancels + h.msgs + h.closes + h.props
MayCall(kind, h) == h[kind] < limit[kind] /\ Ops(h) < limit.ops

\* ------------------------------------------------------ request controller
\* fetchData(attempts), lines 83-142, up to the timer callback: clear the pending
\* timer, take Date.now() as the request id, set the timer, record the id as latest.
\* T: the pending timers; backoff: the delay of the retry timer that made the call
\* (0 for a call by the owner); h: the history counters.
fetchData(T, fn, attempts, backoff, h) ==
  /\ timers' = clearTimeout(T) \cup
       { [id |-> nextId, kind |-> "debounce", delay |-> debounceDelay(fn), setAt |-> now,
          fn |-> fn, attempts |-> attempts, requestId |-> now, seq |-> h.issued + 1,
          backoff |-> backoff, effect |-> 0] }
  /\ timeoutRef' = nextId
  /\ nextId' = nextId + 1
  /\ latestRequestIdRef' = now
  /\ isFirst' = FALSE
  /\ hist' = [h EXCEPT !.issued = @ + 1]

\* a timer callback without the check of line 92
ownerNeverEnded == FALSE

\* if (!isMounted.current) return;  (line 92)
ownerEnded == ~isMounted

\* The timer callback up to the await, lines 90-117.
DebounceFired(t) ==
  /\ t.kind = "debounce"
  /\ TimerReady(t)
  /\ timers' = timers \ {t}
  /\ IF ownerEnded
       THEN /\ hist' = [hist EXCEPT !.silent = TRUE]
            /\ UNCHANGED <<loading, error, calls, abortControllerRef, nextId, netCalls>>
       ELSE /\ loading' = TRUE
            /\ error' = Null
            /\ calls' = abort(calls, "superseded") \cup
                 { [id |-> nextId, seq |-> t.seq, requestId |-> t.requestId,
                    attempts |-> t.attempts, fn |-> t.fn, aborted |-> FALSE,
                    abortedBy |-> "none"] }
            /\ abortControllerRef' = nextId
            /\ nextId' = nextId + 1
            /\ netCalls' = Append(netCalls,
                 [seq |-> t.seq, attempts |-> t.attempts, url |-> t.fn.url,
                  retry |-> t.fn.retry, backoff |-> t.backoff, delay |-> t.delay,
                  wsUrl |-> wsUrl])
            /\ UNCHANGED hist
  /\ UNCHANGED <<props, data, isFirst, timeoutRef, latestRequestIdRef, fetchDataRef,
                 isMounted, now, phase, lastRender, queueDirty, lastPub, wsVars>>

\* the finally of the earlier variant: if (isMounted.current) setLoading(false)
finallyOfAnyRequest(c) == loading' = IF isMounted THEN FALSE ELSE loading

\* a completion without the finally block
finallySkipped(c) == loading' = loading

\* finally: if (isMounted.current && currentRequestId === latestRequestIdRef.current)
\*            setLoading(false)   (lines 132-136)
finally(c) == loading' = IF ShouldPublish(c.requestId) THEN FALSE ELSE loading

Publication(kind, c) == [kind |-> kind, seq |-> c.seq, issued |-> hist.issued]

\* await axios(config) returns a response, lines 117-122 and finally.
Resolved(c) ==
  /\ c \in calls /\ ~c.aborted
  /\ calls' = calls \ {c}
  /\ IF ShouldPublish(c.requestId)
       THEN data' = c.seq /\ lastPub' = Publication("data", c)
       ELSE UNCHANGED <<data, lastPub>>
  /\ finally(c)
  /\ hist' = Bump("successes")
  /\ UNCHANGED <<props, error, isFirst, httpRefs, isMounted, now, timers, phase,
                 lastRender, queueDirty, nextId, netCalls, wsVars>>

\* a retry test that allows one attempt more
mayRetryOnceMore(c) == c.attempts <= c.fn.retry

\* if (attempts < retry), line 125, with the retry of the closure
mayRetry(c) == c.attempts < c.fn.retry

\* await axios(config) throws an error that is no cancellation, lines 123-131 and finally.
Rejected(c, err) ==
  /\ c \in calls /\ ~c.aborted
  /\ calls' = calls \ {c}
  /\ IF mayRetry(c)
       THEN /\ timers' = timers \cup
                 { [id |-> nextId, kind |-> "retry", delay |-> retryDelay(c.attempts),
                    setAt |-> now, fn |-> c.fn, attempts |-> c.attempts + 1,
                    requestId |-> c.requestId, seq |-> c.seq, backoff |-> 0, effect |-> 0] }
            /\ nextId' = nextId + 1
            /\ UNCHANGED <<error, lastPub>>
       ELSE /\ IF ShouldPublish(c.requestId)
                 THEN error' = errorMessage(err) /\ lastPub' = Publication("error", c)
                 ELSE UNCHANGED <<error, lastPub>>
            /\ UNCHANGED <<timers, nextId>>
  /\ finally(c)
  /\ UNCHANGED <<props, data, isFirst, httpRefs, isMounted, now, phase,
                 lastRender, queueDirty, hist, netCalls, wsVars>>

\* await axios(config) throws the cancellation: if (axios.isCancel(err)) return; and finally.
Cancelled(c) ==
  /\ c \in calls /\ c.aborted
  /\ calls' = calls \ {c}
  /\ finally(c)
  /\ UNCHANGED <<props, data, error, isFirst, httpRefs, isMounted, now, timers, phase,
                 lastRender, queueDirty, nextId, hist, netCalls, lastPub, wsVars>>

\* setTimeout(() => fetchData(attempts + 1), retryDelay) fires, line 126.
RetryFired(t) ==
  /\ t.kind = "retry"
  /\ TimerReady(t)
  /\ fetchData(timers \ {t}, t.fn, t.attempts, t.delay, hist)
  /\ UNCHANGED <<props, data, loading, error, abortControllerRef, fetchDataRef, isMounted,
                 now, calls, phase, lastRender, queueDirty, netCalls, lastPub, wsVars>>

\* refetch: () => fetchDataRef.current(), line 239.
Refetch ==
  /\ phase # "init"
  /\ MayCall("fetches", hist)
  /\ fetchData(timers, fetchDataRef, 0, 0, Bump("fetches"))
  /\ UNCHANGED <<props, data, loading, error, abortControllerRef, fetchDataRef, isMounted,
                 now, calls, phase, lastRender, queueDirty, netCalls, lastPub, wsVars>>

\* the setInterval callback of the auto-refresh effect, lines 225-233.
AutoRefreshTick ==
  /\ phase = "mounted"
  /\ autoRefresh # 0 /\ wsUrl = NoUrl
  /\ MayCall("fetches", hist)
  /\ fetchData(timers, fetchDataRef, 0, 0, Bump("fetches"))
  /\ UNCHANGED <<props, data, loading, error, abortControllerRef, fetchDataRef, isMounted,
                 now, calls, phase, lastRender, queueDirty, netCalls, lastPub, wsVars>>

\* cancel: () => abortControllerRef.current?.abort(), line 240.
Cancel ==
  /\ phase # "init"
  /\ MayCall("cancels", hist)
  /\ calls' = abort(calls, "cancel")
  /\ hist' = Bump("cancels")
  /\ UNCHANGED <<props, httpState, httpRefs, isMounted, now, timers, phase,
                 lastRender, queueDirty, nextId, netCalls, lastPub, wsVars>>

\* Date.now() moves on. Only a step that some later comparison can tell apart is taken.
Tick ==
  /\ \/ latestRequestIdRef = now
     \/ \E t \in timers : t.setAt = now /\ t.delay > 0
  /\ now' = now + 1
  /\ UNCHANGED <<props, httpState, httpRefs, isMounted, timers, calls, phase,
                 lastRender, queueDirty, nextId, hist, netCalls, lastPub, wsVars>>

\* --------------------------------------------------- connection controller
Socket(id) == CHOOSE s \in sockets : s.id = id
IsOpen(S, id) == \E s \in S : s.id = id /\ s.status = "open"

\* socket.close(): a connecting or open socket starts closing; its close event follows
close(S, id) ==
  { IF s.id = id THEN [s EXCEPT !.status = "closing"] ELSE s : s \in S }

\* connectWebSocket of the effect run e, lines 164-168: if (wsRef.current) return;
\* wsRef.current = new WebSocket(wsUrl). S, ref: the sockets and wsRef.current before it.
connectWebSocket(S, ref, e) ==
  IF ref # None
    THEN sockets' = S /\ wsRef' = ref /\ UNCHANGED nextSock
    ELSE /\ sockets' = S \cup {[id |-> nextSock, effect |-> e, status |-> "connecting"]}
         /\ wsRef' = nextSock
         /\ nextSock' = nextSock + 1

\* a new run of the WebSocket effect, lines 161-162: let reconnectAttempts = 0 and
\* MAX_RECONNECT_ATTEMPTS = retry * 2 of the render's props
EffectRun(u, r) ==
  [wsUrl |-> u, max |-> MAX_RECONNECT_ATTEMPTS(r), reconnectAttempts |-> 0]

\* onopen, lines 170-174
OnOpen(s) ==
  /\ s \in sockets /\ s.status = "connecting"
  /\ hist.opens < limit.opens
  /\ sockets' = (sockets \ {s}) \cup {[s EXCEPT !.status = "open"]}
  /\ effects' = [effects EXCEPT ![s.effect].reconnectAttempts = 0]
  /\ wsState' = "open"
  /\ hist' = Bump("opens")
  /\ UNCHANGED <<props, httpState, httpRefs, isMounted, now, timers, calls, phase,
                 lastRender, queueDirty, nextId, netCalls, lastPub,
                 wsData, wsMessagesQueue, wsRef, sent, nextSock>>

\* the onmessage of the earlier variant, without try/catch: a payload that does not
\* parse leaves every state as it was
onmessageUncaught(text) ==
  IF ~isMounted \/ ParseThrows(text) THEN [wsData |-> wsData, error |-> error]
  ELSE [wsData |-> JSONparse(text), error |-> error]

\* the onmessage handler, lines 176-183: what it leaves in wsData and error.
\* JSON.parse is evaluated only when the owner is mounted.
onmessage(text) ==
  IF ~isMounted THEN [wsData |-> wsData, error |-> error]
  ELSE IF ParseThrows(text)
    THEN [wsData |-> wsData, error |-> "Failed to parse WebSocket message"]
    ELSE [wsData |-> JSONparse(text), error |-> error]

\* a frame arrives on an open socket
OnMessage(s, text) ==
  /\ s \in sockets /\ s.status = "open"
  /\ hist.inbound < limit.inbound
  /\ wsData' = onmessage(text).wsData
  /\ error' = onmessage(text).error
  /\ hist' = [Bump("inbound") EXCEPT !.malformed = IF IsJSON(text) THEN @ ELSE @ + 1]
  /\ UNCHANGED <<props, data, loading, isFirst, httpRefs, isMounted, now, timers, calls,
                 phase, lastRender, queueDirty, nextId, netCalls, lastPub,
                 wsState, wsMessagesQueue, wsRef, sockets, effects, sent, nextSock>>

\* onerror, lines 185-188. The socket API raises error only when the connection has
\* failed: the socket is no longer open and its close event follows.
OnError(s) ==
  /\ s \in sockets /\ s.status \in {"connecting", "open"}
  /\ sockets' = close(sockets, s.id)
  /\ wsState' = "error"
  /\ UNCHANGED <<props, httpState, httpRefs, isMounted, now, timers, calls, phase,
                 lastRender, queueDirty, nextId, hist, netCalls, lastPub,
                 wsData, wsMessagesQueue, wsRef, effects, sent, nextSock>>

\* a reconnect test that allows one reconnect more
mayReconnectOnceMore(e) == isMounted /\ effects[e].reconnectAttempts <= effects[e].max

\* if (isMounted.current && reconnectAttempts < MAX_RECONNECT_ATTEMPTS), line 194
mayReconnect(e) == isMounted /\ effects[e].reconnectAttempts < effects[e].max

\* onclose, lines 190-198
OnClose(s) ==
  /\ s \in sockets
  /\ sockets' = sockets \ {s}
  /\ wsRef' = None
  /\ wsState' = "closed"
  /\ IF mayReconnect(s.effect)
       THEN /\ effects' = [effects EXCEPT ![s.effect].reconnectAttempts = @ + 1]
            /\ timers' = timers \cup
                 { [id |-> nextId, kind |-> "reconnect",
                    delay |-> reconnectDelay(effects[s.effect].reconnectAttempts + 1),
                    setAt |-> now, fn |-> NoClosure, attempts |-> 0, requestId |-> 0,
                    seq |-> 0, backoff |-> 0, effect |-> s.effect] }
            /\ nextId' = nextId + 1
       ELSE UNCHANGED <<effects, timers, nextId>>
  /\ UNCHANGED <<props, httpState, httpRefs, isMounted, now, calls, phase,
                 lastRender, queueDirty, hist, netCalls, lastPub,
                 wsData, wsMessagesQueue, sent, nextSock>>

\* setTimeout(connectWebSocket, ...) fires, line 196
ReconnectFired(t) ==
  /\ t.kind = "reconnect"
  /\ TimerReady(t)
  /\ timers' = timers \ {t}
  /\ connectWebSocket(sockets, wsRef, t.effect)
  /\ UNCHANGED <<props, httpState, httpRefs, isMounted, now, calls, phase,
                 lastRender, queueDirty, nextId, hist, netCalls, lastPub,
                 wsData, wsState, wsMessagesQueue, effects, sent>>

\* sendMessage, lines 205-212
SendMessage ==
  /\ phase # "init"
  /\ MayCall("msgs", hist)
  /\ LET message == hist.msgs + 1 IN
       IF wsRef # None /\ IsOpen(sockets, wsRef)
         THEN /\ sent' = Append(sent, [socket |-> wsRef, text |-> JSONstringify(message)])
              /\ UNCHANGED <<wsMessagesQueue, queueDirty>>
         ELSE /\ wsMessagesQueue' = Append(wsMessagesQueue, message)
              /\ queueDirty' = TRUE
              /\ UNCHANGED sent
  /\ hist' = [Bump("msgs") EXCEPT !.whileConnecting =
                IF wsState = "connecting" /\ ~(wsRef # None /\ IsOpen(sockets, wsRef))
                  THEN @ \cup {hist.msgs + 1} ELSE @]
  /\ UNCHANGED <<props, httpState, httpRefs, isMounted, now, timers, calls, phase,
                 lastRender, nextId, netCalls, lastPub,
                 wsData, wsState, wsRef, sockets, effects, nextSock>>

\* closeWebSocket, lines 214-220, on the sockets S and wsRef.current ref
closeWebSocket(S, ref) ==
  IF ref # None
    THEN [sockets |-> close(S, ref), wsRef |-> None, wsState |-> "closed"]
    ELSE [sockets |-> S, wsRef |-> ref, wsState |-> wsState]

\* the owner calls closeWebSocket()
CloseWebSocket ==
  /\ phase # "init"
  /\ MayCall("closes", hist)
  /\ LET r == closeWebSocket(sockets, wsRef) IN
       sockets' = r.sockets /\ wsRef' = r.wsRef /\ wsState' = r.wsState
  /\ hist' = Bump("closes")
  /\ UNCHANGED <<props, httpState, httpRefs, isMounted, now, timers, calls, phase,
                 lastRender, queueDirty, nextId, netCalls, lastPub,
                 wsData, wsMessagesQueue, effects, sent, nextSock>>

\* the condition of the flush effect, line 75
canFlush ==
  /\ wsState = "open"
  /\ wsRef # None /\ IsOpen(sockets, wsRef)
  /\ Len(wsMessagesQueue) > 0

\* a flush that sends the head of the queue only
flushedHead(queue) ==
  IF queue = <<>> THEN <<>>
  ELSE <<[socket |-> wsRef, text |-> JSONstringify(Head(queue))]>>

\* wsMessagesQueue.forEach(message => wsRef.current?.send(JSON.stringify(message)))
flushed(queue) ==
  [i \in 1..Len(queue) |-> [socket |-> wsRef, text |-> JSONstringify(queue[i])]]

\* React re-renders with the state set since the last render and runs the effect of
\* lines 74-81 when wsState or wsMessagesQueue (its dependencies) changed.
Commit ==
  /\ phase = "mounted"
  /\ wsState # lastRender \/ queueDirty
  /\ lastRender' = wsState
  /\ IF canFlush
       THEN /\ sent' = sent \o flushed(wsMessagesQueue)
            /\ wsMessagesQueue' = <<>>
            /\ queueDirty' = TRUE
       ELSE /\ queueDirty' = FALSE
            /\ UNCHANGED <<sent, wsMessagesQueue>>
  /\ UNCHANGED <<props, httpState, httpRefs, isMounted, now, timers, calls, phase,
                 nextId, hist, netCalls, lastPub,
                 wsData, wsState, wsRef, sockets, effects, nextSock>>

\* ------------------------------------------------------------- lifecycle
\* the values of the wsUrl option: none, or the address of a server
WsUrls == {NoUrl, 1}

\* the state after the first render with the props r, af, ar and u, before its effects
Start(r, af, ar, u, L) ==
  /\ url = 1 /\ retry = r /\ autoFetch = af /\ autoRefresh = ar /\ wsUrl = u
  /\ data = None /\ loading = FALSE /\ error = Null
  /\ wsData = None /\ wsState = "connecting" /\ wsMessagesQueue = <<>>
  /\ isFirst = TRUE
  /\ wsRef = None /\ abortControllerRef = None /\ timeoutRef = None
  /\ isMounted = TRUE
  /\ latestRequestIdRef = 0
  /\ fetchDataRef = Closure(1, r, TRUE)
  /\ now = 1
  /\ timers = {} /\ calls = {} /\ sockets = {} /\ effects = <<>>
  /\ phase = "init" /\ lastRender = "connecting" /\ queueDirty = FALSE
  /\ nextId = 1 /\ nextSock = 1
  /\ limit = L
  /\ hist = [issued |-> 0, auto |-> 0, fetches |-> 0, cancels |-> 0, msgs |-> 0,
             closes |-> 0, props |-> 0, opens |-> 0, inbound |-> 0, malformed |-> 0,
             successes |-> 0, silent |-> FALSE, whileConnecting |-> {}]
  /\ netCalls = <<>> /\ sent = <<>>
  /\ lastPub = [kind |-> "none", seq |-> 0, issued |-> 0]

Limits(ops, fetches, cancels, msgs, closes, changes, r) ==
  [ops |-> ops, fetches |-> fetches, cancels |-> cancels, msgs |-> msgs, closes |-> closes,
   props |-> changes, opens |-> MaxOpens, inbound |-> MaxInbound, retry |-> r]

\* both controllers, any props, MaxOps calls by the owner
Init ==
  \E r \in 0..MaxWsRetry, af \in BOOLEAN, ar \in {0, 1}, u \in WsUrls :
    Start(r, af, ar, u, Limits(MaxOps, MaxOps, MaxOps, MaxOps, MaxOps, MaxOps, MaxWsRetry))

AllOps == MaxFetches + MaxCancels + MaxMsgs + MaxCloses + MaxPropChanges

\* HTTP mode: no wsUrl
InitHttp ==
  \E r \in 0..MaxRetry, af \in BOOLEAN, ar \in {0, 1} :
    Start(r, af, ar, NoUrl,
          Limits(AllOps, MaxFetches, MaxCancels, 0, 0, MaxPropChanges, MaxRetry))

\* connection mode: a wsUrl, and the owner starts no fetch
InitWs ==
  \E r \in 0..MaxWsRetry :
    Start(r, FALSE, 0, 1, Limits(AllOps, 0, 0, MaxMsgs, MaxCloses, MaxPropChanges, MaxWsRetry))

fetchVars == <<timers, timeoutRef, nextId, latestRequestIdRef, isFirst>>

\* if (autoFetch && !wsUrl) fetchDataRef.current(), lines 149-153, with the wsUrl u
autoFetchEffect(u, h) ==
  IF autoFetch /\ u = NoUrl
    THEN fetchData(timers, fetchDataRef, 0, 0, [h EXCEPT !.auto = @ + 1])
    ELSE hist' = h /\ UNCHANGED fetchVars

\* the body of the WebSocket effect, lines 158-203, with the props u and r, after its
\* cleanup left the sockets S and wsRef.current ref
webSocketEffect(u, r, S, ref) ==
  IF u = NoUrl
    THEN sockets' = S /\ wsRef' = ref /\ UNCHANGED <<effects, nextSock>>
    ELSE /\ effects' = Append(effects, EffectRun(u, r))
         /\ connectWebSocket(S, ref, Len(effects) + 1)

\* the effects of the first render, in the order of the source
Mount ==
  /\ phase = "init"
  /\ phase' = "mounted"
  /\ isMounted' = TRUE
  /\ autoFetchEffect(wsUrl, hist)
  /\ webSocketEffect(wsUrl, retry, sockets, wsRef)
  /\ UNCHANGED <<props, data, loading, error, abortControllerRef, fetchDataRef, now, calls,
                 lastRender, queueDirty, netCalls, lastPub,
                 wsData, wsState, wsMessagesQueue, sent>>

\* the cleanup of the mount effect, lines 64-70, then the cleanups of the WebSocket
\* effect (closeWebSocket again) and of the auto-refresh effect (clearInterval)
Unmount ==
  /\ phase = "mounted"
  /\ phase' = "unmounted"
  /\ isMounted' = FALSE
  /\ calls' = abort(calls, "unmount")
  /\ timers' = clearTimeout(timers)
  /\ LET r == closeWebSocket(sockets, wsRef) IN
       sockets' = r.sockets /\ wsRef' = r.wsRef /\ wsState' = r.wsState
  /\ UNCHANGED <<props, httpState, httpRefs, now, lastRender, queueDirty, nextId, hist,
                 netCalls, lastPub, wsData, wsMessagesQueue, effects, sent, nextSock>>

\* a useCallback that keeps the fetchData it has although a dependency changed
fetchDataKept(u, r) == fetchDataRef

\* the fetchData that useCallback builds in a render whose descriptor u or retry r is
\* new (line 142): it captures the isFirst of that render. The effect of lines 145-147
\* stores it in fetchDataRef.current.
fetchDataOfRender(u, r) == Closure(u, r, isFirst)

\* a render with a new url whose auto-fetch effect has fetchData among its dependencies
ChangeUrlAndFetch ==
  /\ phase = "mounted"
  /\ MayCall("props", hist)
  /\ url' = url + 1
  /\ fetchDataRef' = fetchDataOfRender(url + 1, retry)
  /\ IF autoFetch /\ wsUrl = NoUrl
       THEN fetchData(timers, fetchDataOfRender(url + 1, retry), 0, 0,
                      [Bump("props") EXCEPT !.auto = @ + 1])
       ELSE hist' = Bump("props") /\ UNCHANGED fetchVars
  /\ UNCHANGED <<retry, autoFetch, autoRefresh, wsUrl, limit, data, loading, error,
                 abortControllerRef, isMounted, now, calls, phase,
                 lastRender, queueDirty, netCalls, lastPub, wsVars>>

\* a render with a new request descriptor: useCallback builds a new fetchData (line 142)
\* and the effect of lines 145-147 stores it in fetchDataRef
ChangeUrl ==
  /\ phase = "mounted"
  /\ MayCall("props", hist)
  /\ url' = url + 1
  /\ fetchDataRef' = fetchDataOfRender(url + 1, retry)
  /\ hist' = Bump("props")
  /\ UNCHANGED <<retry, autoFetch, autoRefresh, wsUrl, limit, httpState, abortControllerRef,
                 timeoutRef, latestRequestIdRef, isMounted, now, timers, calls, phase,
                 lastRender, queueDirty, nextId, netCalls, lastPub, wsVars>>

\* a render with a new retry: a new fetchData (line 142), and the WebSocket effect is
\* cleaned up and run again (its dependencies, line 203)
ChangeRetry(r) ==
  /\ phase = "mounted"
  /\ MayCall("props", hist)
  /\ r # retry
  /\ retry' = r
  /\ fetchDataRef' = fetchDataOfRender(url, r)
  /\ LET c == IF wsUrl # NoUrl THEN closeWebSocket(sockets, wsRef)
              ELSE [sockets |-> sockets, wsRef |-> wsRef, wsState |-> wsState] IN
       /\ wsState' = c.wsState
       /\ webSocketEffect(wsUrl, r, c.sockets, c.wsRef)
  /\ hist' = Bump("props")
  /\ UNCHANGED <<url, autoFetch, autoRefresh, wsUrl, limit, httpState, abortControllerRef,
                 timeoutRef, latestRequestIdRef, isMounted, now, timers, calls, phase,
                 lastRender, queueDirty, nextId, netCalls, lastPub,
                 wsData, wsMessagesQueue, sent>>

\* a render with a new wsUrl: the auto-fetch effect (line 153), the WebSocket effect
\* (line 203) and the auto-refresh effect (line 233) are cleaned up and run again
ChangeWsUrl(u) ==
  /\ phase = "mounted"
  /\ MayCall("props", hist)
  /\ u # wsUrl
  /\ wsUrl' = u
  /\ autoFetchEffect(u, Bump("props"))
  /\ LET c == IF wsUrl # NoUrl THEN closeWebSocket(sockets, wsRef)
              ELSE [sockets |-> sockets, wsRef |-> wsRef, wsState |-> wsState] IN
       /\ wsState' = c.wsState
       /\ webSocketEffect(u, retry, c.sockets, c.wsRef)
  /\ UNCHANGED <<url, retry, autoFetch, autoRefresh, limit, data, loading, error,
                 abortControllerRef, fetchDataRef, isMounted, now, calls, phase,
                 lastRender, queueDirty, netCalls, lastPub,
                 wsData, wsMessagesQueue, sent>>

Next ==
  \/ Mount
  \/ Unmount
  \/ ChangeUrl
  \/ \E r \in 0..limit.retry : ChangeRetry(r)
  \/ \E u \in WsUrls : ChangeWsUrl(u)
  \/ Refetch
  \/ AutoRefreshTick
  \/ Cancel
  \/ Tick
  \/ \E t \in timers : DebounceFired(t)
  \/ \E t \in timers : RetryFired(t)
  \/ \E t \in timers : ReconnectFired(t)
  \/ \E c \in calls : Resolved(c)
  \/ \E c \in calls : \E err \in Failures : Rejected(c, err)
  \/ \E c \in calls : Cancelled(c)
  \/ \E s \in sockets : OnOpen(s)
  \/ \E s \in sockets : \E text \in InboundFrames : OnMessage(s, text)
  \/ \E s \in sockets : OnError(s)
  \/ \E s \in sockets : OnClose(s)
  \/ SendMessage
  \/ CloseWebSocket
  \/ Commit

Spec == Init /\ [][Next]_vars

\* the request controller alone
NextHttp ==
  \/ Mount
  \/ Unmount
  \/ ChangeUrl
  \/ \E r \in 0..limit.retry : ChangeRetry(r)
  \/ Refetch
  \/ AutoRefreshTick
  \/ Cancel
  \/ Tick
  \/ \E t \in timers : DebounceFired(t)
  \/ \E t \in timers : RetryFired(t)
  \/ \E c \in calls : Resolved(c)
  \/ \E c \in calls : \E err \in Failures : Rejected(c, err)
  \/ \E c \in calls : Cancelled(c)

SpecHttp == InitHttp /\ [][NextHttp]_vars

\* the connection controller alone
NextWs ==
  \/ Mount
  \/ Unmount
  \/ \E r \in 0..limit.retry : ChangeRetry(r)
  \/ \E u \in WsUrls : ChangeWsUrl(u)
  \/ Tick
  \/ \E t \in timers : ReconnectFired(t)
  \/ \E s \in sockets : OnOpen(s)
  \/ \E s \in sockets : \E text \in InboundFrames : OnMessage(s, text)
  \/ \E s \in sockets : OnError(s)
  \/ \E s \in sockets : OnClose(s)
  \/ SendMessage
  \/ CloseWebSocket
  \/ Commit

SpecWs == InitWs /\ [][NextWs]_vars

\* The request controller under the scheduling of the event loop and a transport that
\* answers: the clock moves on, a timer that is due fires (lines 90, 126), and every
\* transport call is answered, by a response, a failure or its cancellation (line 117).
TimerFires == \E t \in timers : DebounceFired(t) \/ RetryFired(t)
TransportAnswers ==
  \E c \in calls : Resolved(c) \/ Cancelled(c) \/ \E err \in Failures : Rejected(c, err)

SpecHttpFair ==
  /\ InitHttp /\ [][NextHttp]_vars
  /\ WF_vars(Tick) /\ WF_vars(TimerFires) /\ WF_vars(TransportAnswers)

\* ------------------------------------------------------------------ claims
\* C1: last-issued-wins. data and error are written only by the attempt issued last at
\* the moment of the write: an attempt issued before another never publishes its
\* payload or error after that other was issued.
C1_LastIssuedWins == lastPub.seq = lastPub.issued

\* C2: after teardown no transport call is ever started.
C2_NoCallAfterTeardown == [][~isMounted => netCalls' = netCalls]_vars

\* C2's case: after teardown a timer callback ran (the timer fetchData set when a
\* retry-backoff timer pending at teardown fired, or when refetch was called late)
\* and returned without a call.
C2_Witness == ~isMounted /\ hist.silent /\ timers = {} /\ calls = {}

\* C3: after teardown no new socket is ever created.
C3_NoSocketAfterTeardown == [][~isMounted => nextSock' = nextSock]_vars

\* the messages queued while the connection state was "connecting" (messages are
\* numbered in the order of the sendMessage calls, and none was sent directly before
\* the first socket opened)
Texts(log) == [i \in 1..Len(log) |-> log[i].text]
Count(seq, x) == Cardinality({i \in 1..Len(seq) : seq[i] = x})
InSeq(seq, x) == \E i \in 1..Len(seq) : seq[i] = x
Rendered(state) == phase = "mounted" /\ lastRender = state /\ wsState = state /\ ~queueDirty

\* C4: the messages queued while the state was "connecting" are handed to a socket at
\* most once and in their order, and once the state has become "open" (React has
\* rendered it and run its effects) each of them has been handed over and has left
\* the queue.
C4_QueueFlushedOnOpen ==
  /\ \A m \in hist.whileConnecting : Count(Texts(sent), JSONstringify(m)) <= 1
  /\ \A i, j \in 1..Len(sent) :
       \A m, n \in hist.whileConnecting :
         (sent[i].text = JSONstringify(m) /\ sent[j].text = JSONstringify(n) /\ m < n) => i < j
  /\ Rendered("open") =>
       \A m \in hist.whileConnecting :
         InSeq(Texts(sent), JSONstringify(m)) /\ ~InSeq(wsMessagesQueue, m)

\* C5: before teardown every message ever passed to sendMessage has been handed to a
\* socket or is still in the pending outbound queue.
C5_NeverDropped ==
  phase # "unmounted" =>
    \A m \in 1..hist.msgs :
      InSeq(Texts(sent), JSONstringify(m)) \/ InSeq(wsMessagesQueue, m)

\* C5's case: messages went to a socket through the queue and others wait in it.
C5_Witness ==
  /\ phase = "mounted"
  /\ Len(sent) >= 1 /\ Len(wsMessagesQueue) >= 1
  /\ hist.whileConnecting # {}

\* the timers of the request controller
HttpTimers == { t \in timers : t.kind \in {"debounce", "retry"} }

\* C6's case: one fetch by the owner, no cancel, no teardown, and every transport call
\* so far failed (none was answered, none was cancelled)
C6_SingleFailingFetch ==
  /\ hist.auto + hist.fetches = 1
  /\ hist.cancels = 0
  /\ hist.successes = 0
  /\ isMounted
  /\ Len(netCalls) >= 1

\* C6: with retry = N, a transport that always fails and a single fetch, the calls are
\* attempts 0..N at most, the k-th retry follows a backoff timer of 100 * 2^(k-1), and
\* when nothing is pending any more exactly N + 1 calls were made, the error of the
\* last one is published and loading is false.
C6_RetryBudget ==
  C6_SingleFailingFetch =>
    LET N == netCalls[1].retry IN
      /\ Len(netCalls) <= N + 1
      /\ \A i \in 1..Len(netCalls) :
           /\ netCalls[i].attempts = i - 1
           /\ netCalls[i].backoff = IF i = 1 THEN 0 ELSE 100 * 2^(i - 2)
      /\ (HttpTimers = {} /\ calls = {}) =>
           /\ Len(netCalls) = N + 1
           /\ lastPub.kind = "error" /\ lastPub.seq = netCalls[N + 1].seq
           /\ error # Null
           /\ loading = FALSE

\* C6's case with N = 2: three calls were made and nothing is pending.
C6_Witness ==
  /\ C6_SingleFailingFetch
  /\ netCalls[1].retry = 2
  /\ Len(netCalls) = 3
  /\ HttpTimers = {} /\ calls = {}

\* the close events so far: the sockets created that are no longer there
CloseEvents == (nextSock - 1) - Cardinality(sockets)
ReconnectTimers == { t \in timers : t.kind = "reconnect" }

\* C7's case: the owner is mounted, the effect ran once and no handshake succeeded
C7_NeverOpened == phase = "mounted" /\ hist.props = 0 /\ hist.opens = 0

\* C7: with retry = R and a connection that never opens, at most 2R reconnects follow
\* the initial connect, the k-th is scheduled 1000 * min(k, 30) after the k-th close,
\* the chain ends only with close 2R + 1, and then nothing is scheduled and the state
\* is "closed".
C7_ReconnectBudget ==
  C7_NeverOpened =>
    /\ nextSock - 1 <= 2 * retry + 1
    /\ \A t \in ReconnectTimers :
         /\ effects[t.effect].reconnectAttempts = CloseEvents
         /\ t.delay = 1000 * Min(CloseEvents, 30)
    /\ (sockets = {} /\ ReconnectTimers = {}) => CloseEvents = 2 * retry + 1
    /\ CloseEvents = 2 * retry + 1 =>
         /\ sockets = {} /\ ReconnectTimers = {}
         /\ wsState = "closed" /\ wsRef = None

\* C7's case: a retry of 1, three closes, two of them followed by a reconnect.
C7_Witness ==
  /\ C7_NeverOpened
  /\ retry = 1
  /\ CloseEvents = 3

\* the calls whose controller was aborted by cancel() and that complete in this step
CancelledCompletion(c) == c \in calls /\ c.abortedBy = "cancel" /\ calls' = calls \ {c}

C9_MalformedFrameSetsErrorOnly ==
  [][ (hist'.malformed # hist.malformed /\ isMounted) =>
        /\ error' = "Failed to parse WebSocket message"
        /\ UNCHANGED <<wsState, wsRef, wsData, wsMessagesQueue, sockets, effects, sent,
                       timers, data, loading>>
    ]_vars

\* C9's case: a malformed frame arrived on the open connection of a mounted owner.
C9_Witness ==
  /\ isMounted /\ hist.malformed = 1
  /\ wsState = "open" /\ wsRef # None /\ IsOpen(sockets, wsRef)
  /\ error = "Failed to parse WebSocket message"
  /\ ReconnectTimers = {}

\* C10: no HTTP transport call is started while a wsUrl is configured.
C10_ModeExclusive ==
  \A i \in 1..Len(netCalls) : netCalls[i].wsUrl = NoUrl

\* C11: a refetch() invokes the fetchData of the current request descriptor: the timer
\* it sets, and so the transport call that timer starts, carries the url and the retry
\* of the latest render, and fetchDataRef holds that descriptor in every state.
C11_RefetchUsesLatestDescriptor ==
  [][ /\ fetchDataRef'.url = url' /\ fetchDataRef'.retry = retry'
      /\ hist'.fetches # hist.fetches =>
           \A t \in timers' \ timers : t.fn.url = url /\ t.fn.retry = retry
    ]_vars

\* C11's case: after the url changed, a refetch() started a transport call for the new url.
C11_Witness ==
  /\ hist.props = 1 /\ hist.fetches = 1 /\ url = 2
  /\ \E i \in 1..Len(netCalls) : netCalls[i].url = 2

\* C12 as the specification states it: on a mounted HTTP-mode instance with auto-fetch
\* enabled, a change of the url issues a new fetch attempt.
C12_NewDescriptorFetches ==
  [][ (url' # url /\ autoFetch /\ wsUrl = NoUrl) => hist'.issued = hist.issued + 1 ]_vars

\* C12: a change of the request descriptor (url or retry) issues no fetch attempt, sets
\* no timer and starts no transport call, with auto-fetch enabled or not; in HTTP mode
\* the auto-fetch effect issues an attempt only when the instance mounts.
C12_NewDescriptorDoesNotFetch ==
  [][ /\ (url' # url \/ retry' # retry) =>
           /\ hist'.issued = hist.issued
           /\ UNCHANGED <<timers, calls, netCalls, latestRequestIdRef>>
      /\ hist'.auto # hist.auto => phase = "init" /\ phase' = "mounted"
    ]_vars

\* C12's case: auto-fetch fetched at mount, the url changed since, no attempt followed.
C12_Witness ==
  /\ autoFetch /\ isMounted /\ wsUrl = NoUrl
  /\ url = 2 /\ hist.props = 1
  /\ hist.auto = 1 /\ hist.issued = 1

\* the step is a fetch invocation by the owner: auto-fetch, refetch() or auto-refresh tick
OwnerFetch == hist'.fetches # hist.fetches \/ hist'.auto # hist.auto

\* C13: once a newer attempt is issued no timer of an older attempt is pending, the
\* retry-backoff timer included; a failure of a call older than the latest attempt sets
\* no timer, and no retry timer of an older attempt issues an attempt of its own.
C13_OlderTimersCleared ==
  [][ /\ OwnerFetch => \A t \in timers' : t.kind # "retry"
      /\ \A c \in calls :
           (calls' = calls \ {c} /\ c.seq < hist.issued) => HttpTimers' = HttpTimers
      /\ \A t \in timers :
           (t.kind = "retry" /\ t \notin timers' /\ t.seq < hist.issued) =>
             hist'.issued = hist.issued /\ HttpTimers' = HttpTimers \ {t}
    ]_vars

\* C14: every fetch invocation takes an identifier strictly greater than every
\* identifier issued before it (the latest identifier is the greatest issued so far),
\* so no two invocations carry the same identifier.
C14_FreshIdentifier ==
  [][ hist'.issued # hist.issued => latestRequestIdRef' > latestRequestIdRef ]_vars

\* C15: from the moment a new attempt is issued no transport call of an older attempt
\* is in flight with its controller not aborted.
C15_IssueCancelsInFlight ==
  \A c \in calls : c.seq < hist.issued => c.aborted

\* C16: a fetch invocation by the caller (refetch, auto-refresh tick) that is not the
\* first invocation of the lifetime sets its timer to the debounce delay, and after any
\* invocation the timer it set is the only debounce timer pending.
C16_DebounceAfterFirst ==
  [][ /\ (hist'.fetches # hist.fetches /\ hist.issued >= 1) =>
           \A t \in timers' \ timers : t.delay = Debounce
      /\ hist'.issued # hist.issued =>
           Cardinality({ t \in timers' : t.kind = "debounce" }) = 1
    ]_vars

\* C17: the retry after the failure of attempt k is scheduled min(100 * 2^k, 5000)
\* after the failure, and the invocation that timer makes starts its transport call
\* with no further delay.
C17_RetryWaitsBackoffOnly ==
  [][ \A t \in timers' \ timers :
        /\ t.kind = "retry" => t.delay = Min(100 * 2^(t.attempts - 1), 5000)
        /\ (t.kind = "debounce" /\ t.attempts > 0) => t.delay = 0
    ]_vars

\* the call c fails in this step with retry budget left: it ends and a retry is scheduled
FailsWithBudget(c) ==
  /\ c \in calls /\ calls' = calls \ {c}
  /\ \E t \in timers' \ timers : t.kind = "retry"

\* C18: a failed attempt with retry budget left publishes nothing: error, loading and
\* data stay as they were; loading stays true until the budget is exhausted.
C18_FailureWithBudgetPublishesNothing ==
  [][ \A c \in calls : FailsWithBudget(c) => UNCHANGED <<error, loading, data>> ]_vars

\* C19: a reconnect (a reconnect timer fires and creates a socket) while the connection
\* state is "closed" moves the state to "connecting"; on an instance whose WebSocket
\* effect ran once, no step takes the state from "closed" to "open".
C19_ReconnectShowsConnecting ==
  [][ /\ \A t \in ReconnectTimers :
           (t \notin timers' /\ nextSock' # nextSock /\ wsState = "closed") =>
             wsState' = "connecting"
      /\ hist.props = 0 => ~(wsState = "closed" /\ wsState' = "open")
    ]_vars

\* what the step does with the sockets of the effect run e: one of them opens, one of
\* them has its close event, a reconnect of e is scheduled
OpensIn(e) ==
  \E s \in sockets : /\ s.effect = e /\ s.status = "connecting"
                     /\ [s EXCEPT !.status = "open"] \in sockets'
ClosesIn(e) ==
  \E s \in sockets : s.effect = e /\ ~\E s2 \in sockets' : s2.id = s.id
SchedulesReconnect(e) ==
  \E t \in timers' \ timers : t.kind = "reconnect" /\ t.effect = e

\* C20: the reconnect counter of every run of the WebSocket effect stays within
\* 0..2*retry (the retry of its render); a successful open sets it to zero, a close
\* event that schedules a reconnect adds exactly one to it, and no other step changes it.
C20_ReconnectCounter ==
  [][ /\ \A e \in 1..Len(effects') :
           /\ effects'[e].reconnectAttempts \in 0..effects'[e].max
           /\ e > Len(effects) => effects'[e].max = 2 * retry'
      /\ \A e \in 1..Len(effects) :
           /\ effects'[e].max = effects[e].max
           /\ SchedulesReconnect(e) => ClosesIn(e)
           /\ effects'[e].reconnectAttempts =
                IF OpensIn(e) THEN 0
                ELSE IF SchedulesReconnect(e) THEN effects[e].reconnectAttempts + 1
                ELSE effects[e].reconnectAttempts
    ]_vars

\* C20's case: with retry = 1 and one run of the effect, a fourth socket was created:
\* the open between the closes gave the budget of two reconnects back.
C20_Witness ==
  /\ phase = "mounted" /\ hist.props = 0 /\ retry = 1
  /\ hist.opens = 1
  /\ nextSock - 1 >= 4

\* C21: a sendMessage call hands the message to the socket exactly when the published
\* connection state is "open"; in every other state it appends the message to the
\* pending queue and sends nothing.
C21_SendsExactlyWhenOpen ==
  [][ hist'.msgs # hist.msgs =>
        IF wsState = "open"
          THEN Len(sent') = Len(sent) + 1 /\ wsMessagesQueue' = wsMessagesQueue
          ELSE sent' = sent /\ wsMessagesQueue' = Append(wsMessagesQueue, hist'.msgs)
    ]_vars

\* the sockets of S that are connecting or open
Live(S) == { s \in S : s.status \in {"connecting", "open"} }

\* C22: at most one socket of the instance is connecting or open, and the close event
\* of a socket that wsRef no longer holds leaves the handle of the newer socket alone.
C22_SingleLiveSocket ==
  [][ /\ Cardinality(Live(sockets')) <= 1
      /\ \A s \in sockets :
           (~(\E x \in sockets' : x.id = s.id) /\ wsRef # None /\ wsRef # s.id) =>
             wsRef' = wsRef
    ]_vars

\* the socket s was closed by a closeWebSocket() call of the owner, who is still
\* mounted, and its close event is still to come (the effect ran once, so s is the only
\* socket and only closeWebSocket can have cleared wsRef while s is there)
ClosedByOwner(s) ==
  /\ s \in sockets /\ s.status = "closing"
  /\ wsRef = None /\ hist.closes >= 1
  /\ hist.props = 0 /\ phase = "mounted"

\* C23: the close event of a socket that the owner closed with closeWebSocket()
\* schedules no reconnect, whatever the remaining budget.
C23_ClosedStaysClosed ==
  [][ \A s \in sockets :
        (ClosedByOwner(s) /\ ~(\E x \in sockets' : x.id = s.id)) =>
          ReconnectTimers' = ReconnectTimers /\ nextSock' = nextSock
    ]_vars

\* C24: after a cancel(), on an instance whose only fetch invocation by the owner is the
\* auto-fetch of the mount (which precedes every cancel), no transport call is started:
\* a debounce or retry timer pending at the cancel starts no request.
C24_NoCallAfterCancel ==
  [][ (hist.cancels >= 1 /\ hist.fetches = 0 /\ hist'.fetches = 0) =>
        netCalls' = netCalls
    ]_vars

\* C25: at most one transport call in flight has a controller that is not aborted, and
\* it is the call of the controller that abortControllerRef holds.
C25_OneLiveCall ==
  /\ Cardinality({ c \in calls : ~c.aborted }) <= 1
  /\ \A c \in calls : ~c.aborted => c.id = abortControllerRef

\* C25's case: a timer fired while a call was in flight: the older call is in flight
\* with its controller aborted, the newer one is not aborted.
C25_Witness ==
  \E c \in calls, d \in calls :
    /\ c.abortedBy = "superseded" /\ ~d.aborted
    /\ c.seq < d.seq

\* the message m has been handed to a socket
Sent(m) == InSeq(Texts(sent), JSONstringify(m))

\* C26: messages reach the socket in the order of the sendMessage calls (messages are
\* numbered in that order): no message is handed to a socket while a message of an
\* earlier call waits in the queue, and the log of sends is in the order of the calls.
C26_SendOrder ==
  /\ \A m \in 1..hist.msgs, n \in 1..hist.msgs :
       (m < n /\ InSeq(wsMessagesQueue, m)) => ~Sent(n)
  /\ \A i \in 1..Len(sent), j \in 1..Len(sent) :
       \A m \in 1..hist.msgs, n \in 1..hist.msgs :
         (i < j /\ sent[i].text = JSONstringify(m) /\ sent[j].text = JSONstringify(n)) =>
           m <= n

\* C27: after teardown no step changes data, loading, error, wsData or the connection
\* state.
C27_FrozenAfterTeardown ==
  [][ phase = "unmounted" => UNCHANGED <<data, loading, error, wsData, wsState>> ]_vars

\* C28: when the owner is never unmounted, the transport answers every call and the
\* fetch invocations stop (the owner makes finitely many calls), loading eventually
\* becomes false and stays false.
C28_LoadingSettles == ([](phase # "unmounted")) => <>[](loading = FALSE)

\* C28's case: fetches, a cancel and completions have interleaved, nothing is pending
\* any more and loading is false.
C28_Witness ==
  /\ isMounted /\ loading = FALSE
  /\ calls = {} /\ HttpTimers = {}
  /\ Len(netCalls) >= 2 /\ hist.fetches >= 1 /\ hist.cancels >= 1
====
